---------------------------- MODULE Spec2Model ----------------------------
(***************************************************************************)
(* A model of unifi-dns-sync: the periodic two-phase reconciliation pass   *)
(* sync_dns (src/src/main.py), the controller client UnifiController       *)
(* (src/src/main.py), the ledger DatabaseManager (src/src/database.py) and *)
(* the dashboard's query_db (src/src/web.py).                              *)
(*                                                                         *)
(* Text is modelled as a sequence of one-character strings, so that the    *)
(* conversions of the code (lower(), rstrip('.'), the f-string that forms  *)
(* the record key, GROUP_CONCAT and split(',')) are computed and not       *)
(* assumed.  Python's None is the one-element sequence None below, which   *)
(* no text equals.                                                         *)
(*                                                                         *)
(* Specifications: Spec (the passes of sync_dns, with failing controller   *)
(* calls and administrators changing the sites), SpecStorage (Spec with    *)
(* storage errors), SpecLoop (SpecStorage with fairness of the process),   *)
(* SpecLedger (the ledger on its own), SpecClients (get_client_records on  *)
(* its own), SpecTargets (the target of a listed document), SpecReaders    *)
(* (the dashboard's query_db next to the statements of upsert_record) and  *)
(* SpecReplicas (Spec with an administrator acting during a pass).         *)
(***************************************************************************)
EXTENDS Integers, Sequences, FiniteSets, TLC

(***************************************************************************)
(* Bounds of the model.                                                    *)
(***************************************************************************)
\* passes of sync_dns the scheduling loop of main() starts in one behaviour
MaxPasses == 2
\* controller calls that fail (or are answered with an error) in one behaviour
MaxFaults == 1
\* changes an administrator makes to the sites' records between passes
MaxEnvChanges == 1
\* calls made on the ledger in one behaviour of the ledger specification
MaxCalls == 2
\* requests the dashboard serves in one behaviour of the reader specification
MaxQueries == 2

(***************************************************************************)
(* Text.                                                                   *)
(***************************************************************************)
None == <<"\\None">>

UpperCase == <<"A","B","C","D","E","F","G","H","I","J","K","L","M",
               "N","O","P","Q","R","S","T","U","V","W","X","Y","Z">>

LowerCase == <<"a","b","c","d","e","f","g","h","i","j","k","l","m",
               "n","o","p","q","r","s","t","u","v","w","x","y","z">>

\* Python truthiness of an optional text: None and '' are falsy
Truthy(v) == v # None /\ v # <<>>

\* str.lower(), one character
LowerChar(c) ==
    IF \E i \in DOMAIN UpperCase : UpperCase[i] = c
    THEN LowerCase[CHOOSE i \in DOMAIN UpperCase : UpperCase[i] = c]
    ELSE c

\* str.lower()
Lower(s) == [i \in DOMAIN s |-> LowerChar(s[i])]

\* str.rstrip(ch): every trailing ch is removed
RECURSIVE RStrip(_, _)
RStrip(s, ch) ==
    IF s # <<>> /\ s[Len(s)] = ch THEN RStrip(SubSeq(s, 1, Len(s) - 1), ch) ELSE s

\* what an f-string writes for a value: the text itself, "None" for None
Str(v) == IF v = None THEN <<"N","o","n","e">> ELSE v

\* sep.join(parts)
RECURSIVE Join(_, _)
Join(parts, sep) ==
    IF parts = <<>> THEN <<>>
    ELSE IF Len(parts) = 1 THEN parts[1]
    ELSE parts[1] \o sep \o Join(Tail(parts), sep)

\* str.split(ch): the pieces between the occurrences of ch (at least one piece)
RECURSIVE SplitAcc(_, _, _)
SplitAcc(s, ch, cur) ==
    IF s = <<>> THEN <<cur>>
    ELSE IF s[1] = ch THEN <<cur>> \o SplitAcc(Tail(s), ch, <<>>)
    ELSE SplitAcc(Tail(s), ch, Append(cur, s[1]))

Split(s, ch) == SplitAcc(s, ch, <<>>)

\* x in list
InList(x, list) == \E i \in DOMAIN list : list[i] = x


(***************************************************************************)
(* Configuration: controllers.json as main.py reads it, and what each      *)
(* controller reports as its sites.  A site is identified by its uuid.     *)
(***************************************************************************)
A_RECORD == <<"A_RECORD">>

CNAME_RECORD == <<"CNAME_RECORD">>

TXT_RECORD == <<"TXT_RECORD">>

MX_RECORD == <<"MX_RECORD">>

\* config.get('allowed_record_types', ['A_RECORD', 'CNAME_RECORD'])
DefaultAllowedRecordTypes == <<A_RECORD, CNAME_RECORD>>

\* UnifiController.__init__: the fields a controller object is built with
UnifiController(host, site, suffix, clients, allowed) ==
    [host |-> host, site_name |-> site, domain_suffix |-> suffix,
     sync_dhcp_clients |-> clients, allowed_record_types |-> allowed,
     site_id |-> None]

S1 == <<"s","1">>

S2 == <<"s","2">>

S3 == <<"s","3">>

H1 == <<"h","1">>

H2 == <<"h","2">>

\* controllers = [UnifiController(cfg) for cfg in controllers_config]
Controllers ==
    << UnifiController(H1, <<"d","e","f","a","u","l","t">>, <<"l","a","n">>, TRUE,
                       <<A_RECORD, CNAME_RECORD, TXT_RECORD>>),
       UnifiController(H2, <<"d","e","f","a","u","l","t">>, <<>>, FALSE,
                       DefaultAllowedRecordTypes) >>

\* the body of a 200 answer to GET /sites of each controller: {id, name}
SitesOf(host) ==
    IF host = H1 THEN << [id |-> S1, name |-> <<"D","e","f","a","u","l","t">>] >>
    ELSE << [id |-> S2, name |-> <<"D","e","f","a","u","l","t">>],
            [id |-> S3, name |-> <<"l","a","b">>] >>

AllSites == <<S1, S2, S3>>

SiteSet == {AllSites[i] : i \in DOMAIN AllSites}

(***************************************************************************)
(* DNS policy documents.  A site stores documents without 'id'; the        *)
(* controller attaches its own id when it lists them.                      *)
(***************************************************************************)
Doc(type, domain, ip, alias, value, host, priority, ttl) ==
    [id |-> None, type |-> type, domain |-> domain, ipv4Address |-> ip, alias |-> alias,
     value |-> value, host |-> host, priority |-> priority, ttlSeconds |-> ttl,
     enabled |-> TRUE]

\* the documents an administrator may hold on a site
U1 == Doc(A_RECORD, <<"A",".">>, <<"1">>, None, None, None, None, 300)

U2 == Doc(A_RECORD, <<"a">>, <<"1">>, None, None, None, None, 3600)

U3 == Doc(TXT_RECORD, <<"b">>, None, None, <<"t">>, None, None, 300)

NativeDocs == <<U1, U2, U3>>

(***************************************************************************)
(* UnifiController: the pure parts of its methods.                         *)
(***************************************************************************)
\* a variant of _normalize_domain that keeps a trailing dot
MutNormalizeKeepsDot(domain) == IF ~Truthy(domain) THEN <<>> ELSE Lower(domain)

\* _normalize_domain: '' for an absent or empty domain, else lower().rstrip('.')
_normalize_domain(domain) ==
    IF ~Truthy(domain) THEN <<>> ELSE RStrip(Lower(domain), ".")

\* r.get('ipv4Address') or r.get('alias') or r.get('value') or r.get('host')
ExtractTarget(r) ==
    IF Truthy(r.ipv4Address) THEN r.ipv4Address
    ELSE IF Truthy(r.alias) THEN r.alias
    ELSE IF Truthy(r.value) THEN r.value
    ELSE r.host

\* key = (rtype, domain, val) of a listed document (sync_dns, Replication)
LiveKey(r) == <<r.type, _normalize_domain(r.domain), ExtractTarget(r)>>

\* the id a controller shows for the n-th document of a site
PolicyId(site, n) == site \o <<"/">> \o <<LowerCase[n]>>

\* the data of a 200 answer to GET /sites/{site}/dns/policies: the documents the
\* site holds, each with the controller's id, in the controller's order
RECURSIVE ListPolicies(_, _, _)
ListPolicies(site, docs, order) ==
    IF order = <<>> THEN <<>>
    ELSE LET rest == ListPolicies(site, docs, Tail(order))
         IN  IF order[1] \in docs
             THEN <<[order[1] EXCEPT !.id = PolicyId(site, Len(order))]>> \o rest
             ELSE rest

\* a variant of FilterAllowed that keeps every record
MutFilterAllowedKeepsAll(ctrl, data) == data

\* get_dns_records, line 107: the documents whose type is allowed
FilterAllowed(ctrl, data) ==
    SelectSeq(data, LAMBDA r : InList(r.type, ctrl.allowed_record_types))

\* get_dns_records on a 200 answer: keep the allowed types, normalize the domain
get_dns_records_ok(ctrl, data) ==
    LET kept == FilterAllowed(ctrl, data)
    IN  [i \in DOMAIN kept |-> [kept[i] EXCEPT !.domain = _normalize_domain(kept[i].domain)]]

Digits == <<"0","1","2","3","4","5","6","7","8","9">>

\* the class [a-zA-Z0-9-] of the regular expression in get_client_records
SafeChar(c) ==
    \/ InList(c, LowerCase)
    \/ InList(c, UpperCase)
    \/ InList(c, Digits)
    \/ c = "-"

\* str.lstrip(ch)
RECURSIVE LStrip(_, _)
LStrip(s, ch) == IF s # <<>> /\ s[1] = ch THEN LStrip(Tail(s), ch) ELSE s

\* re.sub(r'[^a-zA-Z0-9-]', '-', raw_name).strip('-')
Sanitize(raw_name) ==
    LET subbed == [i \in DOMAIN raw_name |->
                      IF SafeChar(raw_name[i]) THEN raw_name[i] ELSE "-"]
    IN  RStrip(LStrip(subbed, "-"), "-")

\* str.endswith
EndsWith(s, tail) ==
    Len(s) >= Len(tail) /\ SubSeq(s, Len(s) - Len(tail) + 1, Len(s)) = tail

\* get_client_records, lines 149-155: the name with the domain suffix, normalized
FullName(ctrl, name) ==
    LET suffix == LStrip(ctrl.domain_suffix, ".")
    IN  _normalize_domain(
            IF Truthy(ctrl.domain_suffix)
               /\ ~EndsWith(Lower(name), <<".">> \o Lower(suffix))
               /\ Lower(name) # Lower(suffix)
            THEN name \o <<".">> \o suffix
            ELSE name)

\* client.get('name') or client.get('hostname') or client.get('displayName')
RawName(client) ==
    IF Truthy(client.name) THEN client.name
    ELSE IF Truthy(client.hostname) THEN client.hostname
    ELSE client.displayName

\* get_client_records on a 200 answer: one A_RECORD per client with a name and an
\* address, then the filter by allowed type
RECURSIVE ClientDocs(_, _)
ClientDocs(ctrl, clients) ==
    IF clients = <<>> THEN <<>>
    ELSE LET c    == clients[1]
             rest == ClientDocs(ctrl, Tail(clients))
             name == Sanitize(RawName(c))
         IN  IF Truthy(RawName(c)) /\ Truthy(c.ipAddress) /\ name # <<>>
             THEN <<Doc(A_RECORD, FullName(ctrl, name), c.ipAddress,
                        None, None, None, None, 3600)>> \o rest
             ELSE rest

get_client_records_ok(ctrl, clients) == FilterAllowed(ctrl, ClientDocs(ctrl, clients))

\* the clients a site reports
ClientsOf(site) ==
    IF site = S1
    THEN << [name |-> <<"p","c"," ","1">>, hostname |-> None, displayName |-> None,
             ipAddress |-> <<"9">>] >>
    ELSE <<>>

\* create_dns_record, lines 189-191: the payload sent, domain normalized, no 'id'
Payload(record) ==
    [record EXCEPT !.domain = _normalize_domain(record.domain), !.id = None]

\* the answers a controller may give to the POST of create_dns_record
OverlapCodes ==
    { <<"api.dns.policy.validation.overlap-with-local-dns">>,
      <<"api.dns.policy.validation.cname-alias-overlap">> }

CreateResponses ==
    { [status |-> 200, code |-> None], [status |-> 201, code |-> None],
      [status |-> 400, code |-> <<"api.dns.policy.validation.overlap-with-local-dns">>],
      [status |-> 400, code |-> <<"api.dns.policy.validation.cname-alias-overlap">>],
      [status |-> 400, code |-> <<"api.dns.policy.validation.invalid">>],
      [status |-> 400, code |-> None],
      [status |-> 500, code |-> None],
      [status |-> 0, code |-> None] }

\* a variant of Created in which the site keeps the new document alone
MutCreatedOverwrites(held, site, payload) == [held EXCEPT ![site] = {payload}]

\* create_dns_record, lines 193-196: a POST answered 200 or 201 has added the
\* payload to the documents of the site
Created(held, site, payload) == [held EXCEPT ![site] = @ \cup {payload}]

\* a variant of CreateResult that takes every 400 answer for a failure
MutCreateResultNoOverlap(resp) == resp.status \in {200, 201}

\* create_dns_record, lines 192-222: the value returned for an answer
\* (status 0 stands for an exception of requests.post)
CreateResult(resp) ==
    \/ resp.status \in {200, 201}
    \/ resp.status = 400 /\ resp.code \in OverlapCodes

(***************************************************************************)
(* DatabaseManager: the ledger.  A table is the set of its rows (sync_events *)
(* a sequence, in the order of its AUTOINCREMENT id); db is the record of   *)
(* the five tables.                                                         *)
(***************************************************************************)
\* _initialize_db on a new file: five empty tables
EmptyDb ==
    [controllers |-> {}, sites |-> {}, dns_records |-> {}, record_origins |-> {},
     sync_events |-> <<>>]

\* hashlib.sha256(...).hexdigest(): collision-free, so the digest of a text is
\* modelled by the text
sha256(text) == text

\* upsert_record, line 105: f"{rtype}:{domain}:{target}"
RecordKey(rtype, domain, target) ==
    Str(rtype) \o <<":">> \o Str(domain) \o <<":">> \o Str(target)

\* upsert_record, line 106
RecordId(rtype, domain, target) == sha256(RecordKey(rtype, domain, target))

\* update_controller: INSERT OR REPLACE INTO controllers
update_controller(d, host, now) ==
    [d EXCEPT !.controllers =
        {r \in @ : r.host # host} \cup {[host |-> host, last_contact |-> now]}]

\* a variant of update_site that writes no row for a site
MutUpdateSiteWritesNone(d, uuid, host, name, now) == d

\* update_site: INSERT OR REPLACE INTO sites
update_site(d, uuid, host, name, now) ==
    [d EXCEPT !.sites =
        {r \in @ : r.uuid # uuid}
        \cup {[uuid |-> uuid, controller_host |-> host, name |-> name,
               last_synced |-> now]}]

\* a variant of InsertOrReplaceRecord that keeps the row already there
MutInsertRecordNoReplace(rows, row) == rows \cup {row}

\* upsert_record, lines 111-114: INSERT OR REPLACE INTO dns_records
InsertOrReplaceRecord(rows, row) == {r \in rows : r.id # row.id} \cup {row}

\* a variant of InsertOrIgnoreOrigin that replaces the edge already there
MutInsertOriginReplace(rows, row) ==
    {r \in rows : ~(r.record_id = row.record_id /\ r.site_uuid = row.site_uuid)}
    \cup {row}

\* upsert_record, lines 116-119: INSERT OR IGNORE INTO record_origins
InsertOrIgnoreOrigin(rows, row) ==
    IF \E r \in rows : r.record_id = row.record_id /\ r.site_uuid = row.site_uuid
    THEN rows
    ELSE rows \cup {row}

\* a variant of upsert_record that links an origin only to a record the ledger
\* did not hold
MutUpsertRecordFirstOrigin(d, rtype, domain, target, record_raw, site_uuid, now) ==
    LET record_id == RecordId(rtype, domain, target)
    IN  [d EXCEPT
            !.dns_records = InsertOrReplaceRecord(@,
                [id |-> record_id, type |-> rtype, domain |-> domain,
                 target |-> target, record_raw |-> record_raw]),
            !.record_origins =
                IF \E r \in d.dns_records : r.id = record_id
                THEN @
                ELSE InsertOrIgnoreOrigin(@,
                        [record_id |-> record_id, site_uuid |-> site_uuid,
                         first_seen |-> now])]

\* upsert_record: both statements, in one transaction
upsert_record(d, rtype, domain, target, record_raw, site_uuid, now) ==
    LET record_id == RecordId(rtype, domain, target)
    IN  [d EXCEPT
            !.dns_records = InsertOrReplaceRecord(@,
                [id |-> record_id, type |-> rtype, domain |-> domain,
                 target |-> target, record_raw |-> record_raw]),
            !.record_origins = InsertOrIgnoreOrigin(@,
                [record_id |-> record_id, site_uuid |-> site_uuid,
                 first_seen |-> now])]

\* a variant of log_sync_event that also makes the site an origin of the record
MutLogSyncEventAddsOrigin(d, record_id, site_uuid, status, now) ==
    [d EXCEPT !.sync_events = Append(@,
                  [record_id |-> record_id, site_uuid |-> site_uuid, status |-> status,
                   timestamp |-> now]),
              !.record_origins = @ \cup {[record_id |-> record_id, site_uuid |-> site_uuid,
                                          first_seen |-> now]}]

\* a variant of log_sync_event that keeps one event per record and site
MutLogSyncEventReplaces(d, record_id, site_uuid, status, now) ==
    [d EXCEPT !.sync_events =
        SelectSeq(@, LAMBDA e : ~(e.record_id = record_id /\ e.site_uuid = site_uuid))
        \o <<[record_id |-> record_id, site_uuid |-> site_uuid, status |-> status,
              timestamp |-> now]>>]

\* log_sync_event: INSERT INTO sync_events
log_sync_event(d, record_id, site_uuid, status, now) ==
    [d EXCEPT !.sync_events = Append(@,
        [record_id |-> record_id, site_uuid |-> site_uuid, status |-> status,
         timestamp |-> now])]

\* the rows of a set, in the one order the store returns them in
RECURSIVE RowsInOrder(_)
RowsInOrder(rows) ==
    IF rows = {} THEN <<>>
    ELSE LET r == CHOOSE r \in rows : TRUE
         IN  <<r>> \o RowsInOrder(rows \ {r})

\* GROUP_CONCAT(o.site_uuid): the uuids joined by ','
GroupConcat(uuids) == Join(RowsInOrder(uuids), <<",">>)

\* get_all_records_with_origins: dns_records JOIN record_origins GROUP BY r.id
get_all_records_with_origins(d) ==
    LET joined == {r \in d.dns_records :
                      \E o \in d.record_origins : o.record_id = r.id}
        rows   == RowsInOrder(joined)
    IN  [i \in DOMAIN rows |->
            [id |-> rows[i].id, type |-> rows[i].type, domain |-> rows[i].domain,
             target |-> rows[i].target, record_raw |-> rows[i].record_raw,
             origin_site_uuids |->
                GroupConcat({o.site_uuid : o \in {x \in d.record_origins :
                                                     x.record_id = rows[i].id}})]]

\* the origin set of a record in the ledger
Origins(d, record_id) ==
    {o.site_uuid : o \in {x \in d.record_origins : x.record_id = record_id}}

(***************************************************************************)
(* The state of the process.                                               *)
(***************************************************************************)
VARIABLES
    live,            \* site uuid -> the documents the site holds (on its controller)
    db,              \* the ledger
    controllers,     \* sync_dns: the controller objects (site_id, site_name mutable)
    pc,              \* where main()/sync_dns stands
    ci,              \* sync_dns: index of `controller` in controllers
    si,              \* sync_dns: index of `site` in sites (0: sites not yet listed)
    ri,              \* sync_dns: index of `rec_row` in all_records (0: none)
    sites,           \* sync_dns: the list get_all_sites returned
    all_records,     \* sync_dns: the snapshot read after Discovery
    current_dns_map, \* sync_dns: the keys of the site's listed records
    passes,          \* passes started; the clock of datetime.utcnow()
    faults,          \* failed or refused controller calls so far
    envChanges,      \* changes made by administrators so far
    call,            \* history: the last controller call and its answer
    creates,         \* history: the create_dns_record calls of the current pass
    fetched,         \* history: per site, what Replication's fetch gave this pass
    replListed,      \* history: per controller, the sites Replication listed this pass
    liveAtStart,     \* history: live when the current pass started
    liveAtPrev,      \* history: live when the pass before it started
    ok,              \* history: no fault and no change since the current pass started
    quiet,           \* history: the pass before the current one ran whole with ok
    calls,           \* history: the ledger calls made directly (ledger specification)
    discovered,      \* history: per site, what Discovery fetched and upserted this pass
    txn,             \* the open transaction of the ledger's connection (reader specification)
    reader           \* the dashboard's query_db: the statement it is at, what it has read

vars == <<live, db, controllers, pc, ci, si, ri, sites, all_records, current_dns_map,
          passes, faults, envChanges, call, creates, fetched, replListed, liveAtStart,
          liveAtPrev, ok, quiet, calls, discovered, txn,
          reader>>

posVars == <<pc, ci, si, ri>>

\* sqlite3: no transaction is open on the connection
NoTxn == [open |-> FALSE, store |-> EmptyDb, stmts |-> 0]

\* query_db has not been called
NoQuery ==
    [at |-> 0, n |-> 0, during |-> 0, controllers |-> {}, sites |-> {},
     dns_records |-> {}, record_origins |-> {}, records |-> <<>>, events |-> <<>>]

NoCall == [op |-> "none", site |-> None, resp |-> [status |-> 0, code |-> None]]

NativeDocSet == {NativeDocs[i] : i \in DOMAIN NativeDocs}

\* every document a site can come to hold: a native one, or a created payload
PayloadDocSet ==
    {Payload(d) : d \in NativeDocSet}
    \cup {Payload(d) : d \in UNION {{ClientDocs(Controllers[c], ClientsOf(s))[i] :
                 i \in DOMAIN ClientDocs(Controllers[c], ClientsOf(s))} :
                     c \in DOMAIN Controllers, s \in SiteSet}}

\* the order in which a controller lists the documents of a site
ListOrder == NativeDocs \o RowsInOrder(PayloadDocSet \ NativeDocSet)

\* _resolve_site_id: the cached site_id, else the site of GET /sites whose name
\* (case-insensitive) or id is site_name, else None
RECURSIVE LookupSite(_, _)
LookupSite(ctrl, list) ==
    IF list = <<>> THEN None
    ELSE IF (Truthy(list[1].name) /\ Lower(list[1].name) = Lower(ctrl.site_name))
            \/ list[1].id = ctrl.site_name
         THEN list[1].id
         ELSE LookupSite(ctrl, Tail(list))

_resolve_site_id(ctrl) ==
    IF Truthy(ctrl.site_id) THEN ctrl.site_id ELSE LookupSite(ctrl, SitesOf(ctrl.host))

\* a variant of Override that takes the site's name and keeps the site id that
\* the configured site name resolves to
MutOverrideKeepsResolved(ctrl, site) ==
    [ctrl EXCEPT !.site_id = LookupSite(ctrl, SitesOf(ctrl.host)), !.site_name = site.name]

\* a variant of Override that leaves the controller on its configured site
MutOverrideNone(ctrl, site) == ctrl

\* sync_dns, lines 268-272 and 298-301: site_id and site_name overridden
Override(ctrl, site) == [ctrl EXCEPT !.site_id = site.id, !.site_name = site.name]

\* main(), the state after construction: an empty ledger, no pass started; the
\* sites hold what their administrators put there
Init ==
    /\ live \in {f \in [SiteSet -> SUBSET NativeDocSet] :
                   /\ f[S1] \in {{}, {U1}, {U2, U3}}
                   /\ f[S2] \in {{}, {U2}}
                   /\ f[S3] = {}}
    /\ db = EmptyDb
    /\ controllers = Controllers
    /\ pc = "sleep"
    /\ ci = 0 /\ si = 0 /\ ri = 0
    /\ sites = <<>>
    /\ all_records = <<>>
    /\ current_dns_map = {}
    /\ passes = 0
    /\ faults = 0
    /\ envChanges = 0
    /\ call = NoCall
    /\ creates = <<>>
    /\ fetched = {}
    /\ replListed = <<>>
    /\ liveAtStart = live
    /\ liveAtPrev = live
    /\ ok = TRUE
    /\ quiet = FALSE
    /\ calls = <<>>
    /\ discovered = {}
    /\ txn = NoTxn
    /\ reader = NoQuery

(***************************************************************************)
(* Controller calls.  A GET is answered 200, with another status, or ends   *)
(* in an exception (status 0); every answer but 200 counts as a fault.      *)
(***************************************************************************)
GetStatuses == {200, 500, 0}

IsFault(status) == status \notin {200, 201}

\* faults after a call answered with `status`
Charge(n, status) == IF IsFault(status) THEN n + 1 ELSE n

MayAnswer(n, status) == IsFault(status) => n < MaxFaults

\* get_all_sites: the data of a 200 answer, [] otherwise
get_all_sites(ctrl, status) == IF status = 200 THEN SitesOf(ctrl.host) ELSE <<>>

\* get_dns_records: [] without a site id or without a 200 answer
get_dns_records(ctrl, status, held) ==
    LET site_id == _resolve_site_id(ctrl)
    IN  IF ~Truthy(site_id) \/ status # 200 THEN <<>>
        ELSE get_dns_records_ok(ctrl, ListPolicies(site_id, held[site_id], ListOrder))

\* get_client_records: [] when not enabled, without a site id or without a 200
get_client_records(ctrl, status) ==
    LET site_id == _resolve_site_id(ctrl)
    IN  IF ~ctrl.sync_dhcp_clients \/ ~Truthy(site_id) \/ status # 200 THEN <<>>
        ELSE get_client_records_ok(ctrl, ClientsOf(site_id))

\* sync_dns, lines 280-283: one fetched record into the ledger, origin site_uuid
ImportRecord(d, r, site_uuid, now) ==
    upsert_record(d, r.type, _normalize_domain(r.domain), ExtractTarget(r), r,
                  site_uuid, now)

\* sync_dns, lines 279-283: the loop over dns_records + client_records
RECURSIVE ImportAll(_, _, _, _)
ImportAll(d, recs, site_uuid, now) ==
    IF recs = <<>> THEN d
    ELSE ImportAll(ImportRecord(d, recs[1], site_uuid, now), Tail(recs), site_uuid, now)

\* sync_dns, lines 305-311: the keys of current_dns_map
DnsMapKeys(current_records) == {LiveKey(current_records[i]) : i \in DOMAIN current_records}

(***************************************************************************)
(* main() and sync_dns, one action per step.                               *)
(***************************************************************************)
\* main(), lines 350-352 and sync_dns, lines 244-256: a pass starts and reads the
\* configuration; without a readable configuration it returns at once
StartPass ==
    /\ pc = "sleep"
    /\ passes < MaxPasses
    /\ passes' = passes + 1
    /\ creates' = <<>>
    /\ fetched' = {}
    /\ replListed' = <<>>
    /\ liveAtStart' = live
    /\ liveAtPrev' = liveAtStart
    /\ quiet' = (passes >= 1 /\ ok /\ pc = "sleep")
    /\ discovered' = {}
    /\ \/ /\ pc' = "discover"
          /\ ci' = 1 /\ si' = 0 /\ ri' = 0
          /\ controllers' = Controllers
          /\ ok' = TRUE
          /\ call' = NoCall
          /\ UNCHANGED faults
       \/ /\ faults < MaxFaults
          /\ faults' = faults + 1
          /\ ok' = FALSE
          /\ call' = [op |-> "config", site |-> None, resp |-> [status |-> 0, code |-> None]]
          /\ UNCHANGED <<pc, ci, si, ri, controllers>>
    /\ UNCHANGED <<live, db, sites, all_records, current_dns_map, envChanges, calls, txn, reader>>

\* the position after the site loop of controller ci has ended, in phase `phase`
AfterController(phase, after) ==
    IF ci < Len(controllers)
    THEN /\ pc' = phase /\ ci' = ci + 1 /\ si' = 0 /\ ri' = 0
    ELSE /\ pc' = after /\ ci' = 0 /\ si' = 0 /\ ri' = 0

\* the position after site si of the list `list` has been handled
AfterSite(phase, after, list) ==
    IF si < Len(list)
    THEN /\ pc' = phase /\ ci' = ci /\ si' = si + 1 /\ ri' = 0
    ELSE AfterController(phase, after)

\* sync_dns, lines 259-261: Discovery reaches a controller and lists its sites
DiscoverController ==
    /\ pc = "discover" /\ si = 0
    /\ \E status \in GetStatuses :
          /\ MayAnswer(faults, status)
          /\ faults' = Charge(faults, status)
          /\ ok' = (ok /\ ~IsFault(status))
          /\ db' = update_controller(db, controllers[ci].host, passes)
          /\ sites' = get_all_sites(controllers[ci], status)
          /\ call' = [op |-> "sites", site |-> None, resp |-> [status |-> status, code |-> None]]
          /\ IF sites' = <<>>
             THEN AfterController("discover", "snapshot")
             ELSE pc' = "discover" /\ ci' = ci /\ si' = 1 /\ ri' = 0
    /\ UNCHANGED <<live, controllers, all_records, current_dns_map, passes, envChanges,
                   creates, fetched, replListed, liveAtStart, liveAtPrev, quiet, calls, discovered, txn, reader>>

\* sync_dns, lines 263-286: Discovery of one site: the site is recorded, its
\* records and client records are fetched and every one is upserted
DiscoverSite ==
    /\ pc = "discover" /\ si >= 1
    /\ \E sd \in GetStatuses, sc \in GetStatuses :
          LET site == sites[si]
              ctrl == Override(controllers[ci], site)
              d1   == update_site(db, site.id, ctrl.host, site.name, passes)
              dns_records    == get_dns_records(ctrl, sd, live)
              client_records == get_client_records(ctrl, sc)
          IN  /\ (~ctrl.sync_dhcp_clients => sc = 200)
              /\ MayAnswer(faults, sd)
              /\ MayAnswer(Charge(faults, sd), sc)
              /\ faults' = Charge(Charge(faults, sd), sc)
              /\ ok' = (ok /\ ~IsFault(sd) /\ ~IsFault(sc))
              /\ db' = ImportAll(d1, dns_records \o client_records, site.id, passes)
              /\ discovered' = discovered \cup
                    {[site |-> site.id, dns_ok |-> sd = 200, clients_ok |-> sc = 200,
                      upserted |-> {RecordId(r.type, _normalize_domain(r.domain),
                                             ExtractTarget(r)) :
                                       r \in {(dns_records \o client_records)[i] :
                                                 i \in DOMAIN (dns_records \o client_records)}}]}
              /\ call' = [op |-> "records", site |-> _resolve_site_id(ctrl),
                          resp |-> [status |-> sd, code |-> None]]
    /\ AfterSite("discover", "snapshot", sites)
    /\ UNCHANGED <<live, controllers, sites, all_records, current_dns_map, passes,
                   envChanges, creates, fetched, replListed, liveAtStart, liveAtPrev,
                   quiet, calls, txn, reader>>

\* sync_dns, line 289: the snapshot of the ledger Replication works from
Snapshot ==
    /\ pc = "snapshot"
    /\ all_records' = get_all_records_with_origins(db)
    /\ pc' = "replicate" /\ ci' = 1 /\ si' = 0 /\ ri' = 0
    /\ call' = NoCall
    /\ UNCHANGED <<live, db, controllers, sites, current_dns_map, passes, faults,
                   envChanges, creates, fetched, replListed, liveAtStart, liveAtPrev, ok, quiet,
                   calls, discovered, txn, reader>>

\* sync_dns, lines 292-293: Replication reaches a controller and lists its sites
ReplicateController ==
    /\ pc = "replicate" /\ si = 0
    /\ \E status \in GetStatuses :
          /\ MayAnswer(faults, status)
          /\ faults' = Charge(faults, status)
          /\ ok' = (ok /\ ~IsFault(status))
          /\ sites' = get_all_sites(controllers[ci], status)
          /\ replListed' = Append(replListed, [i \in DOMAIN sites' |-> sites'[i].id])
          /\ call' = [op |-> "sites", site |-> None, resp |-> [status |-> status, code |-> None]]
          /\ IF sites' = <<>>
             THEN AfterController("replicate", "sleep")
             ELSE pc' = "replicate" /\ ci' = ci /\ si' = 1 /\ ri' = 0
    /\ UNCHANGED <<live, db, controllers, all_records, current_dns_map, passes,
                   envChanges, creates, fetched, liveAtStart, liveAtPrev, quiet, calls, discovered, txn, reader>>

\* sync_dns, lines 295-311: Replication reaches a site: site_id is overridden, the
\* site's records are fetched and current_dns_map is built
ReplicateFetch ==
    /\ pc = "replicate" /\ si >= 1 /\ ri = 0
    /\ \E status \in GetStatuses :
          LET site == sites[si]
              ctrl == Override(controllers[ci], site)
              current_records == get_dns_records(ctrl, status, live)
          IN  /\ MayAnswer(faults, status)
              /\ faults' = Charge(faults, status)
              /\ ok' = (ok /\ ~IsFault(status))
              /\ controllers' = [controllers EXCEPT ![ci] = ctrl]
              /\ current_dns_map' = DnsMapKeys(current_records)
              /\ fetched' = fetched \cup {[site |-> site.id, ok |-> status = 200,
                                           keys |-> DnsMapKeys(current_records)]}
              /\ call' = [op |-> "records", site |-> _resolve_site_id(ctrl),
                          resp |-> [status |-> status, code |-> None]]
    /\ pc' = "replicate" /\ ci' = ci /\ si' = si /\ ri' = 1
    /\ UNCHANGED <<live, db, sites, all_records, passes, envChanges, creates,
                   replListed, liveAtStart, liveAtPrev, quiet, calls, discovered, txn, reader>>

\* a variant of NeedsCreate without the rule on the site's listed records
MutNeedsCreateNoLiveRule(rec_row, site_uuid, map) ==
    ~InList(site_uuid, Split(rec_row.origin_site_uuids, ","))

\* a variant of NeedsCreate without the origin rule
MutNeedsCreateNoOriginRule(rec_row, site_uuid, map) ==
    <<rec_row.type, rec_row.domain, rec_row.target>> \notin map

\* sync_dns, lines 321-328: the two rules that skip a ledger record on a site
NeedsCreate(rec_row, site_uuid, map) ==
    /\ <<rec_row.type, rec_row.domain, rec_row.target>> \notin map
    /\ ~InList(site_uuid, Split(rec_row.origin_site_uuids, ","))

\* a variant of AfterCreate that stays at the record after a failed creation
MutAfterCreateRetries(result) ==
    pc' = pc /\ ci' = ci /\ si' = si /\ ri' = (IF result THEN ri + 1 ELSE ri)

\* a variant of AfterCreate that ends the pass at a failed creation
MutAfterCreateAborts(result) ==
    IF result
    THEN pc' = pc /\ ci' = ci /\ si' = si /\ ri' = ri + 1
    ELSE pc' = "sleep" /\ ci' = 0 /\ si' = 0 /\ ri' = 0

\* sync_dns, lines 313 and 332-333: whatever create_dns_record returned, the loop
\* goes on with the next ledger record
AfterCreate(result) == pc' = pc /\ ci' = ci /\ si' = si /\ ri' = ri + 1

\* sync_dns, lines 313-333: one ledger record on the current site: skipped, or
\* created on the site and, when create_dns_record returns True, logged
ReplicateRecord ==
    /\ pc = "replicate" /\ ri >= 1 /\ ri <= Len(all_records)
    /\ LET rec_row   == all_records[ri]
           site_uuid == sites[si].id
           target    == _resolve_site_id(controllers[ci])
       IN  IF ~NeedsCreate(rec_row, site_uuid, current_dns_map)
           THEN /\ call' = NoCall
                /\ pc' = pc /\ ci' = ci /\ si' = si /\ ri' = ri + 1
                /\ UNCHANGED <<live, db, faults, creates, ok>>
           ELSE IF ~Truthy(target)
           THEN /\ creates' = Append(creates, [record_id |-> rec_row.id,
                                               site |-> site_uuid, result |-> FALSE])
                /\ call' = NoCall
                /\ AfterCreate(FALSE)
                /\ UNCHANGED <<live, db, faults, ok>>
           ELSE \E resp \in CreateResponses :
                  /\ MayAnswer(faults, resp.status)
                  /\ faults' = Charge(faults, resp.status)
                  /\ ok' = (ok /\ ~IsFault(resp.status))
                  /\ live' = IF resp.status \in {200, 201}
                             THEN Created(live, target, Payload(rec_row.record_raw))
                             ELSE live
                  /\ db' = IF CreateResult(resp)
                           THEN log_sync_event(db, rec_row.id, site_uuid, "CREATED", passes)
                           ELSE db
                  /\ call' = [op |-> "create", site |-> target, resp |-> resp]
                  /\ creates' = Append(creates, [record_id |-> rec_row.id,
                                                 site |-> target,
                                                 result |-> CreateResult(resp)])
                  /\ AfterCreate(CreateResult(resp))
    /\ UNCHANGED <<controllers, sites, all_records, current_dns_map, passes, envChanges,
                   fetched, replListed, liveAtStart, liveAtPrev, quiet, calls, discovered, txn, reader>>

\* sync_dns, lines 335-337: the site's loop has ended: site_id and site_name are
\* restored and the pass moves on (after the last site of the last controller
\* sync_dns returns and main() sleeps)
FinishSite ==
    /\ pc = "replicate" /\ ri = Len(all_records) + 1
    /\ controllers' = [controllers EXCEPT ![ci] = Controllers[ci]]
    /\ AfterSite("replicate", "sleep", sites)
    /\ call' = NoCall
    /\ UNCHANGED <<live, db, sites, all_records, current_dns_map, passes, faults,
                   envChanges, creates, fetched, replListed, liveAtStart, liveAtPrev, ok, quiet,
                   calls, discovered, txn, reader>>

(***************************************************************************)
(* The administrators of the sites: between two passes a document is added  *)
(* to a site or removed from it.                                            *)
(***************************************************************************)
AdminAdds ==
    /\ pc = "sleep" /\ envChanges < MaxEnvChanges /\ passes >= 1 /\ passes < MaxPasses
    /\ \E s \in SiteSet, d \in NativeDocSet :
          /\ d \notin live[s]
          /\ live' = [live EXCEPT ![s] = @ \cup {d}]
    /\ envChanges' = envChanges + 1
    /\ ok' = FALSE
    /\ UNCHANGED <<db, controllers, posVars, sites, all_records, current_dns_map, passes,
                   faults, call, creates, fetched, replListed, liveAtStart, liveAtPrev, quiet, calls, discovered, txn, reader>>

AdminRemoves ==
    /\ pc = "sleep" /\ envChanges < MaxEnvChanges /\ passes >= 1 /\ passes < MaxPasses
    /\ \E s \in SiteSet :
          \E d \in live[s] : live' = [live EXCEPT ![s] = @ \ {d}]
    /\ envChanges' = envChanges + 1
    /\ ok' = FALSE
    /\ UNCHANGED <<db, controllers, posVars, sites, all_records, current_dns_map, passes,
                   faults, call, creates, fetched, replListed, liveAtStart, liveAtPrev, quiet, calls, discovered, txn, reader>>

Next ==
    \/ StartPass
    \/ DiscoverController
    \/ DiscoverSite
    \/ Snapshot
    \/ ReplicateController
    \/ ReplicateFetch
    \/ ReplicateRecord
    \/ FinishSite
    \/ AdminAdds
    \/ AdminRemoves

Spec == Init /\ [][Next]_vars

(***************************************************************************)
(* Storage errors.  Every ledger operation runs in a transaction of its own *)
(* (`with conn:`) and raises when the store fails; sync_dns catches nothing,*)
(* its finally blocks restore the controller, and main() catches the error, *)
(* logs it and sleeps.  A storage error counts as a fault.                  *)
(***************************************************************************)
StorageCall == [op |-> "storage", site |-> None, resp |-> [status |-> 0, code |-> None]]

\* a variant of AfterStorageError in which the error is swallowed where it is
\* raised and the pass goes on with what comes next
MutAfterStorageErrorGoesOn ==
    IF pc = "snapshot"
    THEN pc' = "replicate" /\ ci' = 1 /\ si' = 0 /\ ri' = 0
    ELSE IF pc = "replicate"
    THEN pc' = pc /\ ci' = ci /\ si' = si /\ ri' = ri + 1
    ELSE IF si = 0
    THEN AfterController("discover", "snapshot")
    ELSE AfterSite("discover", "snapshot", sites)

\* a variant of AfterStorageError in which the error leaves main() and the
\* process ends
MutAfterStorageErrorKillsLoop == pc' = "dead" /\ ci' = 0 /\ si' = 0 /\ ri' = 0

\* main(), lines 351-357: the error leaves sync_dns and is caught by the loop,
\* which sleeps
AfterStorageError == pc' = "sleep" /\ ci' = 0 /\ si' = 0 /\ ri' = 0

\* sync_dns, line 260: update_controller raises
StorageErrorController ==
    /\ pc = "discover" /\ si = 0
    /\ faults < MaxFaults
    /\ faults' = faults + 1
    /\ ok' = FALSE
    /\ call' = StorageCall
    /\ AfterStorageError
    /\ UNCHANGED <<live, db, controllers, sites, all_records, current_dns_map, passes,
                   envChanges, creates, fetched, replListed, liveAtStart, liveAtPrev,
                   quiet, calls, discovered, txn, reader>>

\* sync_dns, lines 263-286: update_site raises (k = 0), or the upsert_record of the
\* k-th fetched record does, after those before it were committed
StorageErrorSite ==
    /\ pc = "discover" /\ si >= 1
    /\ faults < MaxFaults
    /\ LET site == sites[si]
           ctrl == Override(controllers[ci], site)
           d1   == update_site(db, site.id, ctrl.host, site.name, passes)
           recs == get_dns_records(ctrl, 200, live) \o get_client_records(ctrl, 200)
       IN  \E k \in 0..Len(recs) :
              LET done == SubSeq(recs, 1, k - 1)
              IN  /\ db' = IF k = 0 THEN db ELSE ImportAll(d1, done, site.id, passes)
                  /\ discovered' = IF k = 0 THEN discovered
                        ELSE discovered \cup
                             {[site |-> site.id, dns_ok |-> TRUE, clients_ok |-> TRUE,
                               upserted |-> {RecordId(done[i].type,
                                                      _normalize_domain(done[i].domain),
                                                      ExtractTarget(done[i])) :
                                                i \in DOMAIN done}]}
    /\ faults' = faults + 1
    /\ ok' = FALSE
    /\ call' = StorageCall
    /\ AfterStorageError
    /\ UNCHANGED <<live, controllers, sites, all_records, current_dns_map, passes,
                   envChanges, creates, fetched, replListed, liveAtStart, liveAtPrev,
                   quiet, calls, txn, reader>>

\* sync_dns, line 289: get_all_records_with_origins raises
StorageErrorSnapshot ==
    /\ pc = "snapshot"
    /\ faults < MaxFaults
    /\ faults' = faults + 1
    /\ ok' = FALSE
    /\ call' = StorageCall
    /\ AfterStorageError
    /\ UNCHANGED <<live, db, controllers, sites, all_records, current_dns_map, passes,
                   envChanges, creates, fetched, replListed, liveAtStart, liveAtPrev,
                   quiet, calls, discovered, txn, reader>>

\* sync_dns, lines 330-337: create_dns_record returned True and log_sync_event
\* raises; the finally block restores site_id and site_name
StorageErrorEvent ==
    /\ pc = "replicate" /\ ri >= 1 /\ ri <= Len(all_records)
    /\ faults < MaxFaults
    /\ LET rec_row   == all_records[ri]
           site_uuid == sites[si].id
           target    == _resolve_site_id(controllers[ci])
       IN  /\ NeedsCreate(rec_row, site_uuid, current_dns_map)
           /\ Truthy(target)
           /\ \E resp \in {r \in CreateResponses : CreateResult(r)} :
                 /\ live' = IF resp.status \in {200, 201}
                            THEN Created(live, target, Payload(rec_row.record_raw))
                            ELSE live
                 /\ creates' = Append(creates, [record_id |-> rec_row.id,
                                                site |-> target, result |-> TRUE])
    /\ faults' = faults + 1
    /\ ok' = FALSE
    /\ call' = StorageCall
    /\ controllers' = [controllers EXCEPT ![ci] = Controllers[ci]]
    /\ AfterStorageError
    /\ UNCHANGED <<db, sites, all_records, current_dns_map, passes, envChanges, fetched,
                   replListed, liveAtStart, liveAtPrev, quiet, calls, discovered, txn, reader>>

NextStorage ==
    \/ Next
    \/ StorageErrorController
    \/ StorageErrorSite
    \/ StorageErrorSnapshot
    \/ StorageErrorEvent

SpecStorage == Init /\ [][NextStorage]_vars

\* where main() and sync_dns stand, and the passes started: every step of the
\* process changes it, and no step of an administrator does
progress == <<pc, ci, si, ri, passes>>

\* the process has a step to take: the loop of main() is asleep and starts a
\* pass (as long as the bound on passes allows one), or sync_dns is at a call
\* or at a statement, which returns or raises
CanStep ==
    \/ pc = "sleep" /\ passes < MaxPasses
    \/ pc \in {"discover", "snapshot", "replicate"}

\* a step of the process, by what it does to progress
Advance ==
    /\ CanStep
    /\ pc' \in {"sleep", "discover", "snapshot", "replicate"}
    /\ ci' \in 0..Len(Controllers)
    /\ si' \in 0..Len(AllSites)
    /\ ri' \in 0..(Len(all_records) + 1)
    /\ passes' \in {passes, passes + 1}

\* main(), lines 349-357: the process keeps running: every request has a timeout,
\* time.sleep returns, and a step that can be taken is taken
SpecLoop == Init /\ [][NextStorage]_vars /\ WF_progress(Advance)

(***************************************************************************)
(* Properties of a pass.                                                   *)
(***************************************************************************)
\* the controller that reports a site
OwnerOf(site) ==
    CHOOSE c \in DOMAIN Controllers :
        \E i \in DOMAIN SitesOf(Controllers[c].host) : SitesOf(Controllers[c].host)[i].id = site

\* the (kind, normalized domain, target) of the documents of a set
KeysOf(docs) == {LiveKey(d) : d \in docs}

\* the ledger id of a document
IdOf(d) == RecordId(d.type, _normalize_domain(d.domain), ExtractTarget(d))

\* the rows of the snapshot
SnapshotRows == {all_records[i] : i \in DOMAIN all_records}

\* the create calls of the current pass
CreateCalls == {creates[i] : i \in DOMAIN creates}

\* C1 (anti-loop): no create_dns_record call of a pass is for a record R on a site S
\* that is in the origin set of R in the ledger the pass replicates from (the ledger
\* is not written between the snapshot and the end of the pass but for sync events).
AntiLoop ==
    \A c \in CreateCalls : c.site \notin Origins(db, c.record_id)

\* C1, its case: a pass has ended in which the fetch of a site did not show a
\* record the site is an origin of, and creations were made elsewhere
AntiLoopWitness ==
    /\ pc = "sleep" /\ creates # <<>>
    /\ \E f \in fetched, row \in SnapshotRows :
          /\ f.site \in Origins(db, row.id)
          /\ <<row.type, row.domain, row.target>> \notin f.keys

\* no two sites held a record of the same key when the pass before this one started
NonOverlapping(held) ==
    \A s, t \in SiteSet : s # t => KeysOf(held[s]) \cap KeysOf(held[t]) = {}

\* C2 (convergence): when the sites held non-overlapping record sets, a pass ran
\* with every call succeeding and nothing changed since, the pass after it, as long
\* as its calls succeed too, issues no create_dns_record call.
Convergence ==
    (quiet /\ ok /\ pc # "sleep" /\ NonOverlapping(liveAtPrev)) => creates = <<>>

\* C3 (propagation) as claimed: after a pass whose calls all succeeded, a record of
\* an allowed kind that was live on a site when the pass started is live, by its
\* key, on every site.
PropagationAsClaimed ==
    (pc = "sleep" /\ passes >= 1 /\ ok) =>
        \A x \in SiteSet : \A d \in liveAtStart[x] :
            InList(d.type, Controllers[OwnerOf(x)].allowed_record_types) =>
                \A s \in SiteSet : LiveKey(d) \in KeysOf(live[s])

\* C3 amended: ... is live, by its key, on every site that the ledger does not
\* hold as an origin of the record.
Propagation ==
    (pc = "sleep" /\ passes >= 1 /\ ok) =>
        \A x \in SiteSet : \A d \in liveAtStart[x] :
            InList(d.type, Controllers[OwnerOf(x)].allowed_record_types) =>
                \A s \in SiteSet :
                    \/ LiveKey(d) \in KeysOf(live[s])
                    \/ s \in Origins(db, IdOf(d))

\* C3, its case: such a pass has ended and a record live on one site when it started
\* is now live on a site that did not hold it then
PropagationWitness ==
    /\ pc = "sleep" /\ passes >= 1 /\ ok
    /\ \E x \in SiteSet, s \in SiteSet : \E d \in liveAtStart[x] :
          /\ LiveKey(d) \notin KeysOf(liveAtStart[s])
          /\ LiveKey(d) \in KeysOf(live[s])

\* C4 (origin monotonicity): no step removes a row of record_origins or changes its
\* first_seen.
OriginMonotone ==
    [][\A o \in db.record_origins : o \in db'.record_origins]_vars

\* C4, its case: Discovery of a second pass has again upserted a record from a site
\* that has been an origin of it since the first pass
OriginMonotoneWitness ==
    /\ pc = "snapshot" /\ passes = 2 /\ ok
    /\ \E o \in db.record_origins :
          /\ o.first_seen = 1
          /\ \E d \in live[o.site_uuid] : IdOf(d) = o.record_id

\* the sync events of the current pass for a record on a site, with a status
EventsOf(record_id, site, status) ==
    {i \in DOMAIN db.sync_events :
        /\ db.sync_events[i].record_id = record_id
        /\ db.sync_events[i].site_uuid = site
        /\ db.sync_events[i].status = status
        /\ db.sync_events[i].timestamp = passes}

\* the create calls of the current pass for a record on a site, with a result
CallsOf(record_id, site, result) ==
    {i \in DOMAIN creates :
        creates[i] = [record_id |-> record_id, site |-> site, result |-> result]}

\* C7: every creation attempt of the pass that failed (create_dns_record returned
\* False) has its own sync event with status FAILED for that record and site.
FailedCreateIsLogged ==
    \A c \in CreateCalls :
        ~c.result =>
            Cardinality(EventsOf(c.record_id, c.site, "FAILED"))
                = Cardinality(CallsOf(c.record_id, c.site, FALSE))

\* the last create call made
LastCreate == creates[Len(creates)]

\* a step in which create_dns_record was called and answered
CreateAnswered == Len(creates') = Len(creates) + 1 /\ call'.op = "create"

\* C8 (conflict classification): a create answered 400 with a recognized overlap
\* code, like one answered 200 or 201, appends exactly one sync event, with status
\* CREATED, for that record and site, and changes no other event.
OverlapIsCreated ==
    [][(/\ CreateAnswered
        /\ \/ call'.resp.status \in {200, 201}
           \/ /\ call'.resp.status = 400
              /\ call'.resp.code \in
                    { <<"api.dns.policy.validation.overlap-with-local-dns">>,
                      <<"api.dns.policy.validation.cname-alias-overlap">> })
       => db'.sync_events =
             Append(db.sync_events,
                    [record_id |-> all_records[ri].id, site_uuid |-> call'.site,
                     status |-> "CREATED", timestamp |-> passes])]_vars

\* C8, its case: a create was answered 400 with an overlap code and the last sync
\* event is the CREATED event of that record and site
OverlapIsCreatedWitness ==
    /\ call.op = "create" /\ call.resp.status = 400
    /\ call.resp.code = <<"api.dns.policy.validation.cname-alias-overlap">>
    /\ db.sync_events # <<>>
    /\ db.sync_events[Len(db.sync_events)] =
          [record_id |-> LastCreate.record_id, site_uuid |-> call.site,
           status |-> "CREATED", timestamp |-> passes]

\* C9: no create_dns_record call of a pass targets a site whose fetch of live
\* records failed in the Replication of that pass.
FailedFetchSkipsSite ==
    \A c \in CreateCalls : \A f \in fetched : f.site = c.site => f.ok

\* the pairs (record, site) Replication owes a creation attempt: the record's key
\* was not among the site's fetched records and the site is no origin of it
Owed ==
    {p \in {<<row.id, f.site>> : row \in SnapshotRows, f \in fetched} :
        \E row \in SnapshotRows, f \in fetched :
            /\ p = <<row.id, f.site>>
            /\ <<row.type, row.domain, row.target>> \notin f.keys
            /\ f.site \notin Origins(db, row.id)}

\* C10 (error isolation): when a pass in which a creation failed has ended, the
\* Replication of every controller was still reached, every site a controller
\* listed was still fetched, and every record owed to a fetched site was attempted.
ErrorIsolation ==
    (pc = "sleep" /\ \E c \in CreateCalls : ~c.result) =>
        /\ Len(replListed) = Len(Controllers)
        /\ \A k \in DOMAIN replListed : \A j \in DOMAIN replListed[k] :
              \E f \in fetched : f.site = replListed[k][j]
        /\ \A p \in Owed : \E c \in CreateCalls : c.record_id = p[1] /\ c.site = p[2]

\* C10, its case: a pass has ended in which a creation failed and a later creation
\* attempt was made, on the same site and on a later site
ErrorIsolationWitness ==
    /\ pc = "sleep"
    /\ \E i, j, k \in DOMAIN creates :
          /\ i < j /\ j < k
          /\ ~creates[i].result
          /\ creates[j].site = creates[i].site
          /\ creates[k].site # creates[i].site

(***************************************************************************)
(* The ledger on its own: upsert_record called directly, and called by the  *)
(* record loop of Discovery on one listed document, with arguments drawn    *)
(* from small sets.  calls keeps, for every call, what was passed to        *)
(* upsert_record and the id it returned; the clock advances with each call. *)
(***************************************************************************)
\* a listed document of a kind, with a domain and a target
ObsDoc(kind, domain, target) ==
    IF kind = A_RECORD
    THEN Doc(A_RECORD, domain, target, None, None, None, None, 300)
    ELSE Doc(kind, domain, None, None, target, None, None, 300)

ObsKinds == {A_RECORD, TXT_RECORD}

ObsDomains == { <<"a">>, <<"A", ".">>, <<"a", ":", "1">>, <<>>, None }

ObsTargets == { <<"2">>, <<"1", ":", "2">>, None, <<"N", "o", "n", "e">> }

InitLedger ==
    /\ live = [s \in SiteSet |-> {}]
    /\ db = EmptyDb
    /\ controllers = Controllers
    /\ pc = "ledger"
    /\ ci = 0 /\ si = 0 /\ ri = 0
    /\ sites = <<>>
    /\ all_records = <<>>
    /\ current_dns_map = {}
    /\ passes = 1
    /\ faults = 0
    /\ envChanges = 0
    /\ call = NoCall
    /\ creates = <<>>
    /\ fetched = {}
    /\ replListed = <<>>
    /\ liveAtStart = live
    /\ liveAtPrev = live
    /\ ok = TRUE
    /\ quiet = FALSE
    /\ calls = <<>>
    /\ discovered = {}
    /\ txn = NoTxn
    /\ reader = NoQuery

\* upsert_record(rtype, domain, target, record_raw, site_uuid), called directly
LedgerUpsert ==
    /\ Len(calls) < MaxCalls
    /\ \E domain \in {<<"a">>, <<"b">>}, raw \in {U1, U2}, site \in {S1, S2} :
          /\ db' = upsert_record(db, A_RECORD, domain, <<"2">>, raw, site, passes)
          /\ calls' = Append(calls,
                [op |-> "upsert", kind |-> A_RECORD, seen |-> domain, domain |-> domain,
                 target |-> <<"2">>, raw |-> raw, site |-> site,
                 ret |-> RecordId(A_RECORD, domain, <<"2">>)])
    /\ passes' = passes + 1
    /\ UNCHANGED <<live, controllers, posVars, sites, all_records, current_dns_map, faults,
                   envChanges, call, creates, fetched, replListed, liveAtStart, liveAtPrev,
                   ok, quiet, discovered, txn, reader>>

\* sync_dns, lines 274-282, for a site that lists one document: get_dns_records
\* filters and normalizes it, the loop upserts it with the site as origin
LedgerObserve ==
    /\ Len(calls) < MaxCalls
    /\ \E kind \in ObsKinds, domain \in ObsDomains, target \in ObsTargets :
          LET listed == <<[ObsDoc(kind, domain, target) EXCEPT !.id = PolicyId(S1, 1)]>>
              recs   == get_dns_records_ok(Controllers[1], listed)
          IN  /\ recs # <<>>
              /\ db' = ImportAll(db, recs, S1, passes)
              /\ calls' = Append(calls,
                    [op |-> "observe", kind |-> recs[1].type, seen |-> domain,
                     domain |-> _normalize_domain(recs[1].domain),
                     target |-> ExtractTarget(recs[1]), raw |-> recs[1], site |-> S1,
                     ret |-> RecordId(recs[1].type, _normalize_domain(recs[1].domain),
                                      ExtractTarget(recs[1]))])
    /\ passes' = passes + 1
    /\ UNCHANGED <<live, controllers, posVars, sites, all_records, current_dns_map, faults,
                   envChanges, call, creates, fetched, replListed, liveAtStart, liveAtPrev,
                   ok, quiet, discovered, txn, reader>>

NextLedger == LedgerUpsert \/ LedgerObserve

SpecLedger == InitLedger /\ [][NextLedger]_vars

\* the rows of dns_records with an id
RowsWithId(id) == {r \in db.dns_records : r.id = id}

\* C5 (idempotent upsert): of two calls of upsert_record with the same kind, domain,
\* target and origin site, both return the same id; from the second call on, the
\* ledger holds exactly one dns_records row with that id and exactly one origin
\* edge of it for that site; and right after the second call the row's raw payload
\* is the one the second call passed.
IdempotentUpsert ==
    \A i, j \in DOMAIN calls :
        (/\ i < j
         /\ calls[i].kind = calls[j].kind /\ calls[i].domain = calls[j].domain
         /\ calls[i].target = calls[j].target /\ calls[i].site = calls[j].site)
        => /\ calls[i].ret = calls[j].ret
           /\ Cardinality(RowsWithId(calls[j].ret)) = 1
           /\ Cardinality({o \in db.record_origins :
                              /\ o.record_id = calls[j].ret
                              /\ o.site_uuid = calls[j].site}) = 1
           /\ j = Len(calls) => \A r \in RowsWithId(calls[j].ret) :
                                    r.record_raw = calls[j].raw

\* C5, its case: upsert_record was called twice with the same kind, domain, target
\* and origin site, and with two different raw payloads
IdempotentUpsertWitness ==
    /\ Len(calls) = 2
    /\ calls[1].op = "upsert" /\ calls[2].op = "upsert"
    /\ calls[1].ret = calls[2].ret /\ calls[1].site = calls[2].site
    /\ calls[1].raw # calls[2].raw

\* two texts that differ at most by letter case and by one trailing dot
OnlyCaseOrDot(d, e) ==
    \/ Lower(d) = Lower(e)
    \/ Lower(d) = Lower(e \o <<".">>)
    \/ Lower(d \o <<".">>) = Lower(e)

\* the observations made by Discovery
Observations == {calls[i] : i \in {k \in DOMAIN calls : calls[k].op = "observe"}}

\* observations of one kind and target whose domains differ only by case or by a
\* trailing dot get the same id, and the ledger holds one record with that id
SameIdentity ==
    \A a, b \in Observations :
        (a.kind = b.kind /\ a.target = b.target /\ OnlyCaseOrDot(a.seen, b.seen))
        => /\ a.ret = b.ret
           /\ Cardinality(RowsWithId(a.ret)) = 1

\* a text with no ':' in it
NoColon(text) == \A i \in DOMAIN text : text[i] # ":"

\* C6 (identity determinism) as claimed: ... and observations that differ in kind,
\* normalized domain or target get different ids.
IdentityAsClaimed ==
    /\ SameIdentity
    /\ \A a, b \in Observations :
          (a.kind # b.kind \/ a.domain # b.domain \/ a.target # b.target)
          => a.ret # b.ret

\* C6, the part of it that holds: ... get different ids, provided that no ':'
\* occurs in their kinds and normalized domains and that both have a target or
\* neither has (a kind is one token of the model, and no token holds a ':').
IdentityDeterminism ==
    /\ SameIdentity
    /\ \A a, b \in Observations :
          (/\ a.kind # b.kind \/ a.domain # b.domain \/ a.target # b.target
           /\ NoColon(a.domain) /\ NoColon(b.domain)
           /\ (a.target = None) = (b.target = None))
          => a.ret # b.ret

\* C6, its case: Discovery observed one kind and target under the domains "a" and
\* "A.", and the ledger holds the record under the id of "a"
IdentityDeterminismWitness ==
    /\ Len(calls) = 2
    /\ calls[1].op = "observe" /\ calls[2].op = "observe"
    /\ calls[1].seen = <<"a">> /\ calls[2].seen = <<"A", ".">>
    /\ calls[1].kind = calls[2].kind /\ calls[1].target = calls[2].target
    /\ calls[1].target # None
    /\ Cardinality(db.dns_records) = 1

(***************************************************************************)
(* Properties of Discovery, of the allow-lists and of the two phases.      *)
(***************************************************************************)
\* a pass has run and returned (the configuration was read)
PassEnded == pc = "sleep" /\ passes >= 1 /\ call.op # "config"

\* C11 (Discovery failure isolation): a site whose fetch of DNS records failed in
\* Discovery gets no record upserted with it as origin in that pass, and the pass
\* goes on: when it has ended, Replication has reached every controller.
DiscoveryFailureIsolation ==
    /\ \A d \in discovered : ~d.dns_ok => d.upserted = {}
    /\ PassEnded => Len(replListed) = Len(Controllers)

\* C12 (storage errors): a storage error raised by a ledger operation ends the
\* pass: the loop of main() sleeps at once and can start the next pass; the step
\* that raises it keeps every dns_records row (by id), every origin edge and
\* every sync event committed before; and until the next pass starts, nothing
\* is written to the ledger and no record is created.
StorageErrorEndsPass ==
    /\ [](call.op = "storage" =>
             (pc = "sleep" /\ (passes < MaxPasses => ENABLED StartPass)))
    /\ [][/\ (pc # "sleep" /\ call'.op = "storage") =>
                /\ \A r \in db.dns_records : \E q \in db'.dns_records : q.id = r.id
                /\ db.record_origins \subseteq db'.record_origins
                /\ db'.sync_events = db.sync_events
          /\ (call.op = "storage" /\ call'.op = "storage") =>
                (db' = db /\ creates' = creates)]_vars

\* C12, its case: log_sync_event raised after Discovery had upserted records and
\* Replication had created one, and the pass has ended
StorageErrorEndsPassWitness ==
    /\ call.op = "storage" /\ pc = "sleep"
    /\ db.dns_records # {} /\ db.record_origins # {}
    /\ creates # <<>>

\* C13 (the scheduling loop never dies): whatever happens in a pass (a failed
\* call, a storage error, an unreadable configuration), the loop comes back to
\* its sleep, and from there it starts the next pass: as long as the bound on
\* passes allows one, a pass that has been started is followed by another.
LoopNeverDies ==
    /\ []<>(pc = "sleep")
    /\ \A n \in 0..(MaxPasses - 1) : (passes = n) ~> (passes = n + 1)

\* C13, its case: a pass in which something failed has ended and the next pass
\* has just started
LoopNeverDiesWitness ==
    /\ passes = 2 /\ pc = "discover" /\ ci = 1 /\ si = 0
    /\ faults >= 1 /\ ~quiet /\ envChanges = 0

\* C14 (no empty domain in the ledger): no row of dns_records has the empty
\* string as its domain, and no origin edge belongs to a record of such a row.
NoEmptyDomainPersisted ==
    /\ \A r \in db.dns_records : r.domain # <<>>
    /\ \A o \in db.record_origins :
          \A r \in db.dns_records : r.id = o.record_id => r.domain # <<>>

\* the elements of a sequence
Range(seq) == {seq[i] : i \in DOMAIN seq}

\* what Discovery would fetch from a site now, every call answered 200
FetchedNow(site) ==
    LET ctrl == Override(Controllers[OwnerOf(site)],
                         CHOOSE x \in Range(SitesOf(Controllers[OwnerOf(site)].host)) :
                             x.id = site)
    IN  Range(get_dns_records(ctrl, 200, live) \o get_client_records(ctrl, 200))

\* C15 (allow-list on ingestion): whatever the sites hold, get_dns_records and
\* get_client_records return only records of a kind in the controller's
\* allowed_record_types, and every record of the ledger is of a kind that the
\* controller of at least one of its origin sites allows.
IngestionAllowList ==
    /\ \A s \in SiteSet : \A r \in FetchedNow(s) :
          InList(r.type, Controllers[OwnerOf(s)].allowed_record_types)
    /\ \A r \in db.dns_records :
          \E s \in Origins(db, r.id) :
              InList(r.type, Controllers[OwnerOf(s)].allowed_record_types)

\* C15, its case: a site holds a record of a kind its controller does not allow,
\* Discovery has fetched the site's records in a pass that has ended, and the
\* site is no origin of the record in the ledger
IngestionAllowListWitness ==
    /\ PassEnded
    /\ \E x \in discovered : \E d \in liveAtStart[x.site] :
          /\ x.dns_ok
          /\ ~InList(d.type, Controllers[OwnerOf(x.site)].allowed_record_types)
          /\ x.site \notin Origins(db, IdOf(d))

\* C16 (allow-list on replication): every create_dns_record call of a pass is for
\* a record of a kind that the controller of the target site allows.
ReplicationAllowList ==
    \A c \in CreateCalls : \A row \in SnapshotRows :
        row.id = c.record_id =>
            InList(row.type, Controllers[OwnerOf(c.site)].allowed_record_types)

(***************************************************************************)
(* get_client_records on its own: a controller with a domain suffix lists   *)
(* one client; calls keeps the client's name, the suffix and the records    *)
(* returned.                                                                *)
(***************************************************************************)
ClientNames ==
    { <<"p", "c">>, <<"p", "c", ".", "l", "a", "n">>, <<"P", "c", ".", "L", "a", "n">>,
      <<"p", "c", " ", "1">>, <<"l", "a", "n">> }

Suffixes == { <<"l", "a", "n">>, <<".", "l", "a", "n">>, <<"L", "A", "N">>, <<>> }

\* get_client_records, lines 136-175, for a 200 answer that lists one client
ClientFetch ==
    /\ Len(calls) < MaxCalls
    /\ \E name \in ClientNames, suffix \in Suffixes :
          LET ctrl == Override(UnifiController(H1, <<"d","e","f","a","u","l","t">>, suffix,
                                               TRUE, DefaultAllowedRecordTypes),
                               SitesOf(H1)[1])
              client == [name |-> name, hostname |-> None, displayName |-> None,
                         ipAddress |-> <<"9">>]
          IN  calls' = Append(calls,
                  [op |-> "clients", name |-> name, suffix |-> suffix,
                   out |-> get_client_records_ok(ctrl, <<client>>)])
    /\ UNCHANGED <<live, db, controllers, posVars, sites, all_records, current_dns_map,
                   passes, faults, envChanges, call, creates, fetched, replListed,
                   liveAtStart, liveAtPrev, ok, quiet, discovered, txn, reader>>

SpecClients == InitLedger /\ [][ClientFetch]_vars

\* a text ends with '.<suffix>', or is the suffix, letter case apart
EndsInSuffix(text, suffix) ==
    \/ EndsWith(Lower(text), <<".">> \o Lower(LStrip(suffix, ".")))
    \/ Lower(text) = Lower(LStrip(suffix, "."))

\* C17 (client-record suffixing): with a suffix configured, the record of a
\* client has the sanitized name with '.<suffix>' appended if and only if the
\* sanitized name does not already end with the suffix; and for a client that
\* reports a name already ending in '.<suffix>', the suffix is not appended.
ClientSuffixing ==
    \A i \in DOMAIN calls :
        LET c    == calls[i]
            name == Sanitize(c.name)
            sfx  == LStrip(c.suffix, ".")
        IN  (Truthy(c.suffix) /\ name # <<>>) =>
               /\ Len(c.out) = 1
               /\ IF EndsInSuffix(name, c.suffix)
                  THEN c.out[1].domain = _normalize_domain(name)
                  ELSE c.out[1].domain = _normalize_domain(name \o <<".">> \o sfx)
               /\ EndsInSuffix(c.name, c.suffix) =>
                     c.out[1].domain # _normalize_domain(name \o <<".">> \o sfx)

\* the site Replication is at, None when it is at none
CurrentSite == IF pc = "replicate" /\ si >= 1 THEN sites[si].id ELSE None

\* the record loop of Replication for a fetched site has ended
SiteDone(site) == site # CurrentSite \/ ri > Len(all_records)

\* the ids of the records for which a create was attempted on a site
Attempted(site) == {c.record_id : c \in {x \in CreateCalls : x.site = site}}

\* the ids of the snapshot records whose key is not among the records fetched
\* from a site and of which the site is no origin
Delta(f) ==
    {row.id : row \in {r \in SnapshotRows :
                          /\ <<r.type, r.domain, r.target>> \notin f.keys
                          /\ f.site \notin Origins(db, r.id)}}

\* C18 (exact replication delta): on a site Replication attempts a create for no
\* record outside the delta of the site (snapshot records not among the records
\* fetched from the site, the site not among their origins), and when the site's
\* record loop has ended, for every record of the delta.
ExactDelta ==
    \A f \in fetched :
        /\ Attempted(f.site) \subseteq Delta(f)
        /\ SiteDone(f.site) => Attempted(f.site) = Delta(f)

\* C18, its case: a pass has ended in which a record with the two origins s1 and
\* s2 was attempted on s3 and on neither of the two, and a record that a site
\* held without being an origin of it was not attempted there
ExactDeltaWitness ==
    /\ PassEnded
    /\ \E row \in SnapshotRows :
          /\ {S1, S2} \subseteq Origins(db, row.id)
          /\ row.id \in Attempted(S3)
          /\ row.id \notin Attempted(S1) \cup Attempted(S2)
    /\ \E f \in fetched, row \in SnapshotRows :
          /\ <<row.type, row.domain, row.target>> \in f.keys
          /\ f.site \notin Origins(db, row.id)

\* no site is reported by two configured controllers
OneControllerPerSite ==
    \A a, b \in DOMAIN Controllers :
        a # b => {x.id : x \in Range(SitesOf(Controllers[a].host))}
                 \cap {x.id : x \in Range(SitesOf(Controllers[b].host))} = {}

\* C19 (no retry within a pass): when every site is reported by one controller, no
\* two create_dns_record calls of a pass are for the same record on the same
\* site, whatever the calls returned.
NoRetry ==
    OneControllerPerSite =>
        \A i, j \in DOMAIN creates :
            (creates[i].record_id = creates[j].record_id
             /\ creates[i].site = creates[j].site) => i = j

\* C19, its case: a pass has ended in which a creation failed and creations were
\* attempted after it
NoRetryWitness ==
    /\ PassEnded
    /\ \E i, j \in DOMAIN creates : i < j /\ ~creates[i].result
    /\ \E i \in DOMAIN creates : creates[i].result

\* C20 (phase ordering): a pass goes from Discovery to the snapshot to
\* Replication and to sleep, in that order; dns_records and record_origins are
\* written in Discovery only, the snapshot is read at the one step between the
\* phases, and records are created and sync events logged in Replication only;
\* all through Replication the snapshot the decisions are made on is what the
\* ledger holds, whatever was created.
PhaseOrdering ==
    /\ [](pc = "replicate" => all_records = get_all_records_with_origins(db))
    /\ [][/\ pc = "discover" => pc' \in {"discover", "snapshot"}
          /\ pc = "snapshot" => pc' = "replicate"
          /\ pc = "replicate" => pc' \in {"replicate", "sleep"}
          /\ (db'.dns_records # db.dns_records
              \/ db'.record_origins # db.record_origins) => pc = "discover"
          /\ all_records' # all_records => pc = "snapshot"
          /\ ((creates' # creates /\ creates' # <<>>)
              \/ db'.sync_events # db.sync_events) => pc = "replicate"]_vars

\* C20, its case: a pass has ended in which Replication created records and
\* logged events from a snapshot that held records
PhaseOrderingWitness ==
    /\ PassEnded
    /\ all_records # <<>>
    /\ creates # <<>>
    /\ \E i \in DOMAIN db.sync_events : db.sync_events[i].timestamp = passes

(***************************************************************************)
(* Properties of the sync events, of the target of a record, of the site a *)
(* call addresses and of the ledger's references.                          *)
(***************************************************************************)
\* C21 (sync events): no step changes or removes a sync event; a step that adds
\* events adds one, at the end, in the Replication phase, and it is the step of a
\* create_dns_record call for the event's record on the event's site; Discovery
\* adds none.
SyncEventsAppendOnly ==
    [][/\ Len(db'.sync_events) >= Len(db.sync_events)
       /\ SubSeq(db'.sync_events, 1, Len(db.sync_events)) = db.sync_events
       /\ db'.sync_events # db.sync_events =>
             /\ Len(db'.sync_events) = Len(db.sync_events) + 1
             /\ pc = "replicate"
             /\ call'.op = "create"
             /\ Len(creates') = Len(creates) + 1
             /\ creates'[Len(creates')].record_id
                   = db'.sync_events[Len(db'.sync_events)].record_id
             /\ creates'[Len(creates')].site
                   = db'.sync_events[Len(db'.sync_events)].site_uuid
       /\ pc \in {"discover", "snapshot", "sleep"} => db'.sync_events = db.sync_events]_vars

\* C21, its case: Replication of a second pass has just logged an event for a
\* record and a site that have an event of the first pass, which is still there,
\* and Discovery has run in between
SyncEventsAppendOnlyWitness ==
    /\ passes = 2 /\ call.op = "create"
    /\ Len(db.sync_events) >= 2
    /\ db.sync_events[1].timestamp = 1
    /\ LET last == db.sync_events[Len(db.sync_events)]
       IN  /\ last.timestamp = 2
           /\ \E i \in DOMAIN db.sync_events :
                 /\ db.sync_events[i].timestamp = 1
                 /\ db.sync_events[i].record_id = last.record_id
                 /\ db.sync_events[i].site_uuid = last.site_uuid

(***************************************************************************)
(* The target of a record: the record loop of Discovery and the key loop of *)
(* Replication on one listed document of a controller that allows the four  *)
(* kinds.  A document carries the field of its kind (a mail-exchange one    *)
(* its host and its priority) and possibly an address it has no use for.    *)
(***************************************************************************)
AllKinds == <<A_RECORD, CNAME_RECORD, TXT_RECORD, MX_RECORD>>

TargetDomains == { <<"a">>, <<"B", ".">> }

\* the documents a site may list, by kind
TargetDocs ==
    {Doc(A_RECORD, dom, ip, None, None, None, None, 300) :
        dom \in TargetDomains, ip \in { <<"1">>, <<"2">> }}
    \cup {Doc(CNAME_RECORD, dom, ip, al, None, None, None, 300) :
        dom \in TargetDomains, ip \in {None, <<"1">>}, al \in { <<"x">>, <<"y">> }}
    \cup {Doc(TXT_RECORD, dom, ip, None, v, None, None, 300) :
        dom \in TargetDomains, ip \in {None, <<"1">>}, v \in { <<"t">>, <<"u">> }}
    \cup {Doc(MX_RECORD, dom, ip, None, None, h, p, 300) :
        dom \in TargetDomains, ip \in {None, <<"1">>}, h \in { <<"m">>, <<"n">> },
        p \in { <<"1","0">>, <<"2","0">> }}

\* sync_dns, lines 279-283 and 306-311, for a site that lists one document: the
\* record is upserted under the target Discovery extracts, and Replication
\* extracts the target of its key from the same listing
TargetObserve ==
    /\ Len(calls) < MaxCalls
    /\ \E doc \in TargetDocs :
          LET ctrl   == Override(UnifiController(H1, <<"d","e","f","a","u","l","t">>, <<>>,
                                                 FALSE, AllKinds), SitesOf(H1)[1])
              listed == <<[doc EXCEPT !.id = PolicyId(S1, 1)]>>
              recs   == get_dns_records_ok(ctrl, listed)
          IN  /\ recs # <<>>
              /\ db' = ImportAll(db, recs, S1, passes)
              /\ calls' = Append(calls,
                    [op |-> "target", doc |-> doc,
                     domain |-> _normalize_domain(recs[1].domain),
                     target |-> ExtractTarget(recs[1]),
                     key |-> LiveKey(recs[1]),
                     ret |-> RecordId(recs[1].type, _normalize_domain(recs[1].domain),
                                      ExtractTarget(recs[1]))])
    /\ passes' = passes + 1
    /\ UNCHANGED <<live, controllers, posVars, sites, all_records, current_dns_map, faults,
                   envChanges, call, creates, fetched, replListed, liveAtStart, liveAtPrev,
                   ok, quiet, discovered, txn, reader>>

SpecTargets == InitLedger /\ [][TargetObserve]_vars

\* the target of a document by its kind: the address, the alias, the text value,
\* the composite 'host:priority'
KindTarget(doc) ==
    IF doc.type = A_RECORD THEN doc.ipv4Address
    ELSE IF doc.type = CNAME_RECORD THEN doc.alias
    ELSE IF doc.type = TXT_RECORD THEN doc.value
    ELSE Str(doc.host) \o <<":">> \o Str(doc.priority)

\* C22 (target extraction): the target a record is upserted under is the field of
\* its kind (for a mail-exchange record 'host:priority'), whatever other field the
\* document carries; Replication's key has the same target; and two mail-exchange
\* records of one domain and host with different priorities get different ids and
\* are two rows of the ledger.
TargetExtraction ==
    /\ \A i \in DOMAIN calls :
          /\ calls[i].target = KindTarget(calls[i].doc)
          /\ calls[i].key[3] = calls[i].target
    /\ \A i, j \in DOMAIN calls :
          (/\ calls[i].doc.type = MX_RECORD /\ calls[j].doc.type = MX_RECORD
           /\ calls[i].domain = calls[j].domain
           /\ calls[i].doc.host = calls[j].doc.host
           /\ calls[i].doc.priority # calls[j].doc.priority)
          => /\ calls[i].ret # calls[j].ret
             /\ Cardinality(db.dns_records) = 2

\* the part of it that holds: Discovery and Replication extract the same target,
\* and an address record, or a record of another kind that carries no address,
\* gets the field of its kind, a mail-exchange record its host
TargetOfKind ==
    \A i \in DOMAIN calls :
        LET doc == calls[i].doc
        IN  /\ calls[i].key[3] = calls[i].target
            /\ (doc.type = A_RECORD \/ doc.ipv4Address = None) =>
                  calls[i].target = (IF doc.type = MX_RECORD THEN doc.host
                                     ELSE KindTarget(doc))

\* the documents of a set that are of a kind the controller of a site allows
AllowedOn(site, docs) ==
    {d \in docs : InList(d.type, Controllers[OwnerOf(site)].allowed_record_types)}

\* the ledger ids of the documents a site holds and of the records of its clients
IdsAt(site) ==
    {IdOf(d) : d \in live[site]}
    \cup {IdOf(d) : d \in Range(ClientDocs(Controllers[OwnerOf(site)], ClientsOf(site)))}

\* C23 (site targeting): at a site S a controller reports, the fetch of Discovery,
\* the fetch of Replication and every create address S itself, whatever the
\* configured site name is and whatever was resolved before: Discovery's fetch
\* and every origin edge it adds are of S and of records S holds; Replication's
\* fetch gives the keys of the allowed records S holds; a create changes the live
\* set of S and of no other site.
SiteTargeting ==
    [][/\ (pc = "discover" /\ si >= 1 /\ call'.op = "records") =>
             /\ call'.site = sites[si].id
             /\ \A o \in db'.record_origins \ db.record_origins :
                   o.site_uuid = sites[si].id /\ o.record_id \in IdsAt(sites[si].id)
             /\ \E r \in db'.sites : r.uuid = sites[si].id
       /\ (pc = "replicate" /\ si >= 1 /\ ri = 0 /\ call'.op = "records") =>
             /\ call'.site = sites[si].id
             /\ call'.resp.status = 200 =>
                   current_dns_map' = KeysOf(AllowedOn(sites[si].id, live[sites[si].id]))
       /\ (pc = "replicate" /\ call'.op = "create") =>
             /\ call'.site = sites[si].id
             /\ creates'[Len(creates')].site = sites[si].id
             /\ \A t \in SiteSet : t # sites[si].id => live'[t] = live[t]]_vars

\* C23, its case: on the site of h2 whose name is not the configured site name,
\* Discovery has fetched and Replication has fetched and created a record, which
\* the site now holds; the controller's other site holds no such record
SiteTargetingWitness ==
    /\ pc = "replicate" /\ ci = 2 /\ si = 2 /\ sites[si].id = S3
    /\ Lower(sites[si].name) # Lower(Controllers[2].site_name)
    /\ call.op = "create" /\ call.site = S3 /\ call.resp.status = 201
    /\ \E x \in discovered : x.site = S3 /\ x.dns_ok
    /\ \E d \in live[S3] : d \notin liveAtStart[S3] /\ d \notin live[S2]

(***************************************************************************)
(* The dashboard next to the sync thread.  upsert_record runs its two       *)
(* statements in one transaction of the ledger's connection (`with conn:`); *)
(* query_db opens a connection of its own and runs four SELECT statements,  *)
(* each of which reads what is committed when it runs.  The two threads     *)
(* interleave statement by statement.                                       *)
(***************************************************************************)
\* a variant of Visible in which a connection sees what another connection has
\* written and not yet committed
MutVisibleUncommitted(committed, t) == IF t.open THEN t.store ELSE committed

\* sqlite3: what a statement of another connection reads while the transaction t
\* is open on the writer's connection: the committed store
Visible(committed, t) == committed

\* upsert_record, lines 109-114: the transaction opens and the first statement,
\* INSERT OR REPLACE INTO dns_records, runs in it
UpsertInsertRecord ==
    /\ ~txn.open
    /\ Len(calls) < MaxCalls
    /\ \E domain \in {<<"a">>, <<"b">>}, raw \in {U1, U2}, site \in {S1, S2} :
          LET record_id == RecordId(A_RECORD, domain, <<"2">>)
          IN  /\ txn' = [open |-> TRUE, stmts |-> 1,
                         store |-> [db EXCEPT !.dns_records = InsertOrReplaceRecord(@,
                                      [id |-> record_id, type |-> A_RECORD, domain |-> domain,
                                       target |-> <<"2">>, record_raw |-> raw])]]
              /\ calls' = Append(calls,
                    [op |-> "upsert", kind |-> A_RECORD, seen |-> domain, domain |-> domain,
                     target |-> <<"2">>, raw |-> raw, site |-> site, ret |-> record_id])
    /\ UNCHANGED <<live, db, controllers, posVars, sites, all_records, current_dns_map,
                   passes, faults, envChanges, call, creates, fetched, replListed,
                   liveAtStart, liveAtPrev, ok, quiet, discovered, reader>>

\* upsert_record, lines 116-119: the second statement, INSERT OR IGNORE INTO
\* record_origins, runs in the same transaction
UpsertInsertOrigin ==
    /\ txn.open /\ txn.stmts = 1
    /\ LET c == calls[Len(calls)]
       IN  txn' = [txn EXCEPT !.stmts = 2,
                              !.store.record_origins = InsertOrIgnoreOrigin(@,
                                  [record_id |-> c.ret, site_uuid |-> c.site,
                                   first_seen |-> passes])]
    /\ UNCHANGED <<live, db, controllers, posVars, sites, all_records, current_dns_map,
                   passes, faults, envChanges, call, creates, fetched, replListed,
                   liveAtStart, liveAtPrev, ok, quiet, calls, discovered, reader>>

\* upsert_record, line 109: `with conn:` ends and commits both statements
UpsertCommit ==
    /\ txn.open /\ txn.stmts = 2
    /\ db' = txn.store
    /\ txn' = NoTxn
    /\ passes' = passes + 1
    /\ UNCHANGED <<live, controllers, posVars, sites, all_records, current_dns_map,
                   faults, envChanges, call, creates, fetched, replListed,
                   liveAtStart, liveAtPrev, ok, quiet, calls, discovered, reader>>

\* upsert_record, line 109: a statement raises and `with conn:` rolls back what
\* the transaction wrote
UpsertRollback ==
    /\ txn.open
    /\ faults < MaxFaults
    /\ faults' = faults + 1
    /\ txn' = NoTxn
    /\ UNCHANGED <<live, db, controllers, posVars, sites, all_records, current_dns_map,
                   passes, envChanges, call, creates, fetched, replListed,
                   liveAtStart, liveAtPrev, ok, quiet, calls, discovered, reader>>

\* sync_dns, line 289: the sync thread reads the ledger on its own connection,
\* between two transactions
ReadAllRecords ==
    /\ ~txn.open
    /\ all_records # get_all_records_with_origins(db)
    /\ all_records' = get_all_records_with_origins(db)
    /\ UNCHANGED <<live, db, controllers, posVars, sites, current_dns_map,
                   passes, faults, envChanges, call, creates, fetched, replListed,
                   liveAtStart, liveAtPrev, ok, quiet, calls, discovered, txn, reader>>

\* query_db, lines 142-147: a request opens a connection and reads controllers
QueryControllers ==
    /\ reader.at \in {0, 4}
    /\ reader.n < MaxQueries
    /\ reader' = [NoQuery EXCEPT !.at = 1, !.n = reader.n + 1,
                                 !.controllers = Visible(db, txn).controllers]
    /\ UNCHANGED <<live, db, controllers, posVars, sites, all_records, current_dns_map,
                   passes, faults, envChanges, call, creates, fetched, replListed,
                   liveAtStart, liveAtPrev, ok, quiet, calls, discovered, txn>>

\* query_db, line 148: SELECT ... FROM sites
QuerySites ==
    /\ reader.at = 1
    /\ reader' = [reader EXCEPT !.at = 2, !.sites = Visible(db, txn).sites]
    /\ UNCHANGED <<live, db, controllers, posVars, sites, all_records, current_dns_map,
                   passes, faults, envChanges, call, creates, fetched, replListed,
                   liveAtStart, liveAtPrev, ok, quiet, calls, discovered, txn>>

\* query_db, lines 151-156: the columns of dns_records JOIN record_origins
\* GROUP BY r.id
RecordsWithOrigins(d) ==
    LET rows == get_all_records_with_origins(d)
    IN  [i \in DOMAIN rows |->
            [type |-> rows[i].type, domain |-> rows[i].domain, target |-> rows[i].target,
             origin_site_uuids |-> rows[i].origin_site_uuids]]

\* query_db, lines 151-156: the records statement; dns_records and record_origins
\* keep the rows of the two tables the statement could see, during the number
\* of statements the writer's open transaction had run
QueryRecords ==
    /\ reader.at = 2
    /\ LET seen == Visible(db, txn)
       IN  reader' = [reader EXCEPT !.at = 3,
                                    !.during = IF txn.open THEN txn.stmts ELSE 0,
                                    !.dns_records = seen.dns_records,
                                    !.record_origins = seen.record_origins,
                                    !.records = RecordsWithOrigins(seen)]
    /\ UNCHANGED <<live, db, controllers, posVars, sites, all_records, current_dns_map,
                   passes, faults, envChanges, call, creates, fetched, replListed,
                   liveAtStart, liveAtPrev, ok, quiet, calls, discovered, txn>>

\* query_db, lines 159-166: sync_events JOIN dns_records JOIN sites, the latest
\* first
RECURSIVE EventsJoined(_, _)
EventsJoined(d, events) ==
    IF events = <<>> THEN <<>>
    ELSE LET e    == events[Len(events)]
             rest == EventsJoined(d, SubSeq(events, 1, Len(events) - 1))
         IN  IF (\E r \in d.dns_records : r.id = e.record_id)
                /\ (\E x \in d.sites : x.uuid = e.site_uuid)
             THEN <<[timestamp |-> e.timestamp,
                     domain |-> (CHOOSE r \in d.dns_records : r.id = e.record_id).domain,
                     site_name |-> (CHOOSE x \in d.sites : x.uuid = e.site_uuid).name,
                     status |-> e.status]>> \o rest
             ELSE rest

\* query_db, lines 159-175: the events statement; the connection is closed and
\* the four results are returned
QueryEvents ==
    /\ reader.at = 3
    /\ reader' = [reader EXCEPT !.at = 4,
                     !.events = EventsJoined(Visible(db, txn), Visible(db, txn).sync_events)]
    /\ UNCHANGED <<live, db, controllers, posVars, sites, all_records, current_dns_map,
                   passes, faults, envChanges, call, creates, fetched, replListed,
                   liveAtStart, liveAtPrev, ok, quiet, calls, discovered, txn>>

NextReaders ==
    \/ UpsertInsertRecord
    \/ UpsertInsertOrigin
    \/ UpsertCommit
    \/ UpsertRollback
    \/ ReadAllRecords
    \/ QueryControllers
    \/ QuerySites
    \/ QueryRecords
    \/ QueryEvents

SpecReaders == InitLedger /\ [][NextReaders]_vars

\* every record row of a read has an origin edge in it, and every origin edge
\* its record row
Paired(records, origins) ==
    /\ \A r \in records : \E o \in origins : o.record_id = r.id
    /\ \A o \in origins : \E r \in records : r.id = o.record_id

\* C24 (consistent reads): what the records statement of query_db can see, at
\* whatever point of an upsert_record of the sync thread it runs, has no record
\* row without an origin edge and no origin edge without its record row, and the
\* result lists every record row seen; the same holds of what
\* get_all_records_with_origins returned; and a transaction that ends commits
\* both statements or neither.
ConsistentReads ==
    /\ reader.at >= 3 =>
          /\ Paired(reader.dns_records, reader.record_origins)
          /\ Len(reader.records) = Cardinality(reader.dns_records)
    /\ Len(all_records) <= Cardinality(db.dns_records)
    /\ \A i \in DOMAIN all_records :
          /\ all_records[i].origin_site_uuids # <<>>
          /\ \E r \in db.dns_records : r.id = all_records[i].id
    /\ Paired(db.dns_records, db.record_origins)

\* C24, its case: the records statement ran between the two statements of an
\* upsert_record of a record the ledger did not hold, after another upsert had
\* been committed, and the transaction is still open
ConsistentReadsWitness ==
    /\ reader.at >= 3 /\ reader.during = 1
    /\ txn.open
    /\ reader.dns_records # {}
    /\ \E r \in txn.store.dns_records : \A q \in reader.dns_records : q.id # r.id

\* C25 (referential integrity of events): every sync event's record_id is the id
\* of a row of dns_records, and its site_uuid is the uuid of a row of sites.
EventIntegrity ==
    \A i \in DOMAIN db.sync_events :
        /\ \E r \in db.dns_records : r.id = db.sync_events[i].record_id
        /\ \E x \in db.sites : x.uuid = db.sync_events[i].site_uuid

\* the part of it that holds: every sync event is of a record of the ledger
EventRecordIntegrity ==
    \A i \in DOMAIN db.sync_events :
        \E r \in db.dns_records : r.id = db.sync_events[i].record_id

\* C26 (referential integrity of origins): every row of dns_records has at least
\* one origin edge; every origin edge is of a row of dns_records; and every
\* origin edge's site is a row of sites whose controller_host is a row of
\* controllers.
OriginIntegrity ==
    /\ \A r \in db.dns_records : \E o \in db.record_origins : o.record_id = r.id
    /\ \A o \in db.record_origins :
          /\ \E r \in db.dns_records : r.id = o.record_id
          /\ \E x \in db.sites :
                /\ x.uuid = o.site_uuid
                /\ \E c \in db.controllers : c.host = x.controller_host

\* C26, its case: Discovery of a second pass has ended; a record of the ledger has
\* origin sites of both controllers, one of them a site that got the record from
\* Replication
OriginIntegrityWitness ==
    /\ pc = "snapshot" /\ passes = 2 /\ envChanges = 0
    /\ \E r \in db.dns_records :
          /\ S1 \in Origins(db, r.id)
          /\ S3 \in Origins(db, r.id)
          /\ \E o \in db.record_origins :
                o.record_id = r.id /\ o.site_uuid = S3 /\ o.first_seen = 2

\* the documents a step has added to a site
AddedTo(site) == live'[site] \ live[site]

\* C27 (create-only engine): a step of a pass removes no document from a site and
\* changes none (a site's documents, with their TTL and enabled flag, stay as
\* they are), and it removes no row of dns_records; the only change to a site
\* is one document added by a create on that site, of a key that the site's
\* fetched records did not show.
CreateOnly ==
    [][pc # "sleep" =>
          /\ \A s \in SiteSet : live[s] \subseteq live'[s]
          /\ \A r \in db.dns_records : \E q \in db'.dns_records : q.id = r.id
          /\ \A s \in SiteSet :
                AddedTo(s) # {} =>
                   /\ pc = "replicate" /\ s = sites[si].id
                   /\ Len(creates') = Len(creates) + 1
                   /\ Cardinality(AddedTo(s)) = 1
                   /\ \A p \in AddedTo(s) : LiveKey(p) \notin current_dns_map]_vars

\* C27, its case: a pass has ended in which records were created; s1 and s2 still
\* hold their documents of one key with different TTLs, as they held them when
\* the pass started, and s3 was given a document of that key
CreateOnlyWitness ==
    /\ PassEnded /\ envChanges = 0
    /\ creates # <<>>
    /\ U1 \in live[S1] /\ U2 \in live[S2]
    /\ LiveKey(U1) = LiveKey(U2) /\ U1.ttlSeconds # U2.ttlSeconds
    /\ live[S1] = liveAtStart[S1] /\ live[S2] = liveAtStart[S2]
    /\ \E d \in live[S3] : LiveKey(d) = LiveKey(U1)

(***************************************************************************)
(* Administrators acting during a pass: a document is removed from a site   *)
(* after Discovery has ended and before Replication reads the snapshot.     *)
(***************************************************************************)
AdminRemovesMidPass ==
    /\ pc = "snapshot" /\ envChanges < MaxEnvChanges
    /\ \E s \in SiteSet :
          \E d \in live[s] : live' = [live EXCEPT ![s] = @ \ {d}]
    /\ envChanges' = envChanges + 1
    /\ ok' = FALSE
    /\ UNCHANGED <<db, controllers, posVars, sites, all_records, current_dns_map, passes,
                   faults, call, creates, fetched, replListed, liveAtStart, liveAtPrev,
                   quiet, calls, discovered, txn, reader>>

NextReplicas == Next \/ AdminRemovesMidPass

SpecReplicas == Init /\ [][NextReplicas]_vars

\* a sync event of an earlier pass says that a record was created on a site, and
\* Discovery of a later pass has made the site an origin of the record
ReplicaObserved(record_id, site) ==
    \E i \in DOMAIN db.sync_events : \E o \in db.record_origins :
        /\ db.sync_events[i].record_id = record_id
        /\ db.sync_events[i].site_uuid = site
        /\ o.record_id = record_id /\ o.site_uuid = site
        /\ o.first_seen > db.sync_events[i].timestamp

\* C28 (replicas become origins): every record Discovery fetches from a site has
\* that site among its origins from then on, a record Replication created there
\* like any other; and no create is attempted for a record on a site where it was
\* created in an earlier pass and observed by a later Discovery, whether the
\* site still holds it or not.
ReplicasBecomeOrigins ==
    /\ \A x \in discovered : \A id \in x.upserted : x.site \in Origins(db, id)
    /\ \A c \in CreateCalls : ~ReplicaObserved(c.record_id, c.site)

\* C28, its case: a record created on s3 in the first pass was observed there by
\* Discovery of the second pass and then removed from s3; Replication of the
\* second pass fetched s3 without the record, and the pass has ended
ReplicasBecomeOriginsWitness ==
    /\ PassEnded /\ passes = 2
    /\ \E row \in SnapshotRows :
          /\ ReplicaObserved(row.id, S3)
          /\ \E x \in discovered : x.site = S3 /\ row.id \in x.upserted
          /\ \E f \in fetched :
                f.site = S3 /\ f.ok /\ <<row.type, row.domain, row.target>> \notin f.keys
          /\ \A d \in live[S3] : IdOf(d) # row.id

=============================================================================
